---- MODULE Spec2Model ----
(***************************************************************************)
(* Streaming session client (api/agent.ts over the SSE helper of           *)
(* api/client) and permission evaluator (utils/auth.ts) of the front-end.  *)
(***************************************************************************)
EXTENDS Integers, Sequences, FiniteSets, TLC

\* Frames the server emits on one stream, at most.
MaxEvents == 2
\* Calls of one stream's cancel function, at most.
MaxCancels == 2

\* The stream handles that can coexist in one view.
Streams == {"h1", "h2"}

VARIABLES
  status,    \* stream -> the handle's flag: "idle", "open", "closed"
  conn,      \* stream -> the transport: "none", "connecting", "up",
             \*           "aborted", "failed", "ended"
  connects,  \* stream -> connections the client opened for it
  sent,      \* stream -> the frames the server emitted, in emission order
  buffer,    \* stream -> frames the transport holds, not yet read
  running,   \* stream -> onEvent invocations that have not settled
  calls,     \* stream -> the callbacks invoked, in invocation order
  cancels,   \* stream -> calls of the cancel function
  failure,   \* stream -> the transport failure that hit the open stream
  check,     \* the last permission check: function, arguments, result
  tcall,     \* download-URL call -> its position, file id, result
  issued,    \* the access tokens the backend minted, in order
  vncCall,   \* the last getVNCUrl call: arguments and the URL returned
  isRegistering,     \* login page: register mode
  formData,          \* login page: the four fields
  validationErrors,  \* login page: the fields that carry an error
  authLog,           \* login page: the login/register calls made, in order
  submitTick,        \* login page: flips each time handleSubmit runs
  acall,      \* API clients: per caller, the invocation in progress or settled
  sessions,   \* backend: lifecycle status of each session
  share,      \* backend: the share pair in force for each session, 0 for none
  shareSerial,\* backend: share pairs issued so far
  files,      \* backend: the stored files
  modelValue,   \* chat box: the text of the input (v-model of the parent)
  hasTextInput, \* chat box: the text is not blank, as of the last change
  isComposing,  \* chat box: an input-method composition is going on
  attachment,   \* chat box: the attachment slot
  uploading,    \* chat box: an upload is in flight
  uploads,      \* chat box: uploads started so far
  lastSubmit,   \* chat box: payload of the last submit event
  sentAttachments, \* chat box: the attachments sent so far, in order
  chatTick,     \* chat box: flips with every submit event
  storedToken,  \* router: what getStoredToken returns
  nav,          \* router: the navigation under way, or the last one settled
  currentRoute  \* router: the path of the route entered last

streamVars == <<status, conn, connects, sent, buffer, running,
                calls, cancels, failure>>
tokenVars == <<tcall, issued, vncCall>>
loginVars == <<isRegistering, formData, validationErrors, authLog, submitTick>>
apiVars == <<acall, sessions, share, shareSerial, files>>
chatVars == <<modelValue, hasTextInput, isComposing, attachment, uploading,
              uploads, lastSubmit, sentAttachments, chatTick>>
routerVars == <<storedToken, nav, currentRoute>>
nonStreamVars == <<check, tokenVars, loginVars, apiVars, chatVars, routerVars>>
vars == <<streamVars, check, tokenVars, loginVars, apiVars, chatVars, routerVars>>

----------------------------------------------------------------------------
\* Frames and callback records

OnEvent(n) == [tag |-> "event", seq |-> n]
OnComplete == [tag |-> "complete", seq |-> 0]
OnError == [tag |-> "error", seq |-> 0]

Last(q) == q[Len(q)]
IsEvent(c) == c.tag = "event"
IsError(c) == c.tag = "error"
IsDelivery(c) == c.tag \in {"event", "complete"}
Events(s) == SelectSeq(calls[s], IsEvent)
Errors(s) == SelectSeq(calls[s], IsError)
Deliveries(q) == SelectSeq(q, IsDelivery)

----------------------------------------------------------------------------
\* Event Stream Manager

\* The streamed endpoints, all session-scoped, and the method they are
\* requested with.
Endpoints == {"/sessions", "/sessions/{id}/chat", "/sessions/{id}/shell",
              "/sessions/{id}/file"}

\* createSSEConnection(endpoint, options, callbacks): one stream, one
\* connection, one handle. The endpoint and the request body go to the
\* backend as they are; the handle's behaviour does not depend on them.
createSSEConnection(s, endpoint, method) ==
  /\ endpoint \in Endpoints
  /\ method = "POST"
  /\ status[s] = "idle"
  /\ status' = [status EXCEPT ![s] = "open"]
  /\ conn' = [conn EXCEPT ![s] = "connecting"]
  /\ connects' = [connects EXCEPT ![s] = @ + 1]
  /\ UNCHANGED <<sent, buffer, running, calls, cancels, failure, nonStreamVars>>

chatWithSession(s) == createSSEConnection(s, "/sessions/{id}/chat", "POST")

viewShellSession(s) == createSSEConnection(s, "/sessions/{id}/shell", "POST")

viewFile(s) == createSSEConnection(s, "/sessions/{id}/file", "POST")

getSessionsSSE(s) == createSSEConnection(s, "/sessions", "POST")

\* The backend accepts the request (2xx): the stream is up.
Respond(s) ==
  /\ conn[s] = "connecting"
  /\ conn' = [conn EXCEPT ![s] = "up"]
  /\ UNCHANGED <<status, connects, sent, buffer, running, calls,
                 cancels, failure, nonStreamVars>>

\* The server emits its next frame: an event, a malformed frame, or the end
\* of the stream. A frame already on its way still arrives after an abort.
Emit(s, tag) ==
  /\ conn[s] \in {"up", "aborted"}
  /\ Len(sent[s]) < MaxEvents
  /\ IF sent[s] = <<>> THEN TRUE ELSE Last(sent[s]).tag # "end"
  /\ LET f == [tag |-> tag, seq |-> Len(sent[s]) + 1]
     IN /\ sent' = [sent EXCEPT ![s] = Append(@, f)]
        /\ buffer' = [buffer EXCEPT ![s] = Append(@, f)]
  /\ UNCHANGED <<status, conn, connects, running, calls, cancels,
                 failure, nonStreamVars>>

\* Bug variant: the newest frame buffered is read first.
NextFrameIndex_Newest(q) == Len(q)

\* The frame the manager reads next: the oldest one buffered.
NextFrameIndex(q) == 1

RemoveAt(q, i) == SubSeq(q, 1, i - 1) \o SubSeq(q, i + 1, Len(q))

\* Bug variant: no latch, a cancel is only a request to the transport.
MayDispatch_NoLatch(s) == status[s] # "idle"

\* The latch checked before each dispatch.
MayDispatch(s) == status[s] = "open"

\* A dispatch waits for the previous onEvent of the stream to settle.
DispatchReady(s) == running[s] = 0

\* Bug variant: the failure is reported by two handlers.
FailureCallbacks_Twice == <<OnError, OnError>>

\* The callbacks a failure of the open stream invokes.
FailureCallbacks == <<OnError>>

\* Connections the manager opens after a failure.
Reconnects == 0

\* What a transport-level failure does to an open stream.
FailOpen(s, cause) ==
  /\ calls' = [calls EXCEPT ![s] = @ \o FailureCallbacks]
  /\ status' = [status EXCEPT ![s] = "closed"]
  /\ failure' = [failure EXCEPT ![s] = cause]
  /\ connects' = [connects EXCEPT ![s] = @ + Reconnects]

\* The frame of stream s the manager dispatches next.
Frame(s) == buffer[s][NextFrameIndex(buffer[s])]

\* The next frame is read, decoded and dispatched: dropped when the handle is closed,
\* otherwise onEvent, onComplete (end of stream) or onError (malformed).
Deliver(s) ==
  /\ buffer[s] # <<>>
  /\ DispatchReady(s)
  /\ buffer' = [buffer EXCEPT ![s] = RemoveAt(@, NextFrameIndex(@))]
  /\ IF ~MayDispatch(s)
       THEN UNCHANGED <<status, conn, connects, running, calls, failure>>
       ELSE CASE Frame(s).tag = "event" ->
                   /\ calls' = [calls EXCEPT ![s] = Append(@, OnEvent(Frame(s).seq))]
                   /\ running' = [running EXCEPT ![s] = @ + 1]
                   /\ UNCHANGED <<status, conn, connects, failure>>
              [] Frame(s).tag = "end" ->
                   /\ calls' = [calls EXCEPT ![s] = Append(@, OnComplete)]
                   /\ status' = [status EXCEPT ![s] = "closed"]
                   /\ conn' = [conn EXCEPT ![s] = "ended"]
                   /\ UNCHANGED <<connects, running, failure>>
              [] OTHER ->
                   /\ FailOpen(s, "malformed")
                   /\ conn' = [conn EXCEPT ![s] = "aborted"]
                   /\ UNCHANGED running
  /\ UNCHANGED <<sent, cancels, nonStreamVars>>

\* The consumer's onEvent returns (or its promise settles).
Settle(s) ==
  /\ running[s] > 0
  /\ running' = [running EXCEPT ![s] = @ - 1]
  /\ UNCHANGED <<status, conn, connects, sent, buffer, calls,
                 cancels, failure, nonStreamVars>>

\* The transport reports a failure: a non-2xx response while connecting, a
\* dropped connection, or the abort itself after a cancel.
TransportFailure(s, cause) ==
  /\ \/ cause = "non2xx" /\ conn[s] = "connecting"
     \/ cause = "drop" /\ conn[s] \in {"connecting", "up", "aborted"}
  /\ conn' = [conn EXCEPT ![s] = "failed"]
  /\ IF MayDispatch(s)
       THEN FailOpen(s, cause)
       ELSE UNCHANGED <<status, connects, calls, failure>>
  /\ UNCHANGED <<sent, buffer, running, cancels, nonStreamVars>>

\* Bug variant: one abort controller shared by every stream.
CancelTargets_All(s) == Streams

\* The handles one call of stream s's cancel function closes.
CancelTargets(s) == {s}

\* Bug variant: a cancel aborts whatever the handle's flag says.
CancelCloses_Always(t) == TRUE

\* The handle is closed by a cancel only while it is open.
CancelCloses(t) == status[t] = "open"

\* cancel(): the returned disposer. Closes the latch and aborts the transport.
cancel(s) ==
  /\ status[s] # "idle"
  /\ cancels[s] < MaxCancels
  /\ cancels' = [cancels EXCEPT ![s] = @ + 1]
  /\ status' = [t \in Streams |->
                  IF t \in CancelTargets(s) /\ CancelCloses(t) THEN "closed"
                  ELSE status[t]]
  /\ conn' = [t \in Streams |->
                IF t \in CancelTargets(s) /\ CancelCloses(t) THEN "aborted"
                ELSE conn[t]]
  /\ UNCHANGED <<connects, sent, buffer, running, calls, failure,
                 nonStreamVars>>

InitStream ==
  /\ status = [s \in Streams |-> "idle"]
  /\ conn = [s \in Streams |-> "none"]
  /\ connects = [s \in Streams |-> 0]
  /\ sent = [s \in Streams |-> <<>>]
  /\ buffer = [s \in Streams |-> <<>>]
  /\ running = [s \in Streams |-> 0]
  /\ calls = [s \in Streams |-> <<>>]
  /\ cancels = [s \in Streams |-> 0]
  /\ failure = [s \in Streams |-> "none"]

NextStream ==
  \E s \in Streams :
    \/ chatWithSession(s)
    \/ viewShellSession(s)
    \/ viewFile(s)
    \/ getSessionsSSE(s)
    \/ Respond(s)
    \/ \E tag \in {"event", "bad", "end"} : Emit(s, tag)
    \/ Deliver(s)
    \/ Settle(s)
    \/ \E cause \in {"non2xx", "drop"} : TransportFailure(s, cause)
    \/ cancel(s)



----------------------------------------------------------------------------
\* Properties of the Event Stream Manager

\* C1: once a stream's cancel function has returned, neither onEvent nor
\* onComplete is invoked for that stream again, whatever the transport still
\* holds or receives.
NoDeliveryAfterCancel ==
  [][\A s \in Streams :
        cancels[s] > 0 => Deliveries(calls'[s]) = Deliveries(calls[s])]_vars

\* A cancelled stream whose second event frame arrived and was consumed
\* without a callback.
C1_Witness ==
  \E s \in Streams :
    /\ cancels[s] > 0
    /\ failure[s] = "none"
    /\ buffer[s] = <<>>
    /\ Len(sent[s]) >= 2
    /\ sent[s][1].tag = "event"
    /\ sent[s][2].tag = "event"
    /\ calls[s] = <<OnEvent(1)>>

\* C2: the events handed to onEvent are the first frames the server emitted,
\* in emission order, and at most one onEvent of a stream is unsettled.
InOrderDelivery ==
  \A s \in Streams :
    /\ Len(Events(s)) <= Len(sent[s])
    /\ \A i \in 1..Len(Events(s)) :
         /\ Events(s)[i] = OnEvent(i)
         /\ sent[s][i] = [tag |-> "event", seq |-> i]
    /\ running[s] <= 1

\* Two events delivered, the second one not yet settled.
C2_Witness ==
  \E s \in Streams : Len(Events(s)) >= 2 /\ running[s] = 1

\* C3: a cancel of a closed handle (a second cancel, or one after natural
\* completion) changes nothing: the handle stays closed, the transport is
\* left alone and no callback is invoked.
CancelIdempotent ==
  [][\A s \in Streams :
        (cancels'[s] = cancels[s] + 1 /\ status[s] = "closed") =>
          /\ status'[s] = "closed"
          /\ conn'[s] = conn[s]
          /\ calls' = calls
          /\ failure' = failure
          /\ connects' = connects
          /\ buffer' = buffer
          /\ running' = running]_vars

\* One stream cancelled twice after it completed, another cancelled twice
\* while it was open.
C3_Witness ==
  \E s, t \in Streams :
    /\ cancels[s] >= 2
    /\ calls[s] # <<>>
    /\ Last(calls[s]) = OnComplete
    /\ conn[s] = "ended"
    /\ cancels[t] >= 2
    /\ conn[t] = "aborted"
    /\ failure[t] = "none"

\* C4: a transport-level failure of an open stream invokes onError exactly
\* once, as the stream's last callback, and closes the stream; the client
\* opens no further connection.
ErrorOnceThenClosed ==
  \A s \in Streams :
    /\ Len(Errors(s)) <= 1
    /\ connects[s] <= 1
    /\ (Errors(s) # <<>>) => (failure[s] # "none")
    /\ (failure[s] # "none") =>
         /\ Len(Errors(s)) = 1
         /\ Last(calls[s]) = OnError
         /\ status[s] = "closed"

\* A malformed frame closed one stream; the connection of another dropped
\* after its first event, and the frame that followed was discarded.
C4_Witness ==
  \E s, t \in Streams :
    /\ failure[s] = "malformed"
    /\ failure[t] = "drop"
    /\ calls[t] = <<OnEvent(1), OnError>>
    /\ Len(sent[t]) >= 2
    /\ buffer[t] = <<>>

\* C5: a cancel of one stream leaves every other stream as it was: flag,
\* transport, buffered frames and callbacks.
CancelIsolated ==
  [][\A s, t \in Streams :
        (s # t /\ cancels'[s] = cancels[s] + 1) =>
          /\ status'[t] = status[t]
          /\ conn'[t] = conn[t]
          /\ buffer'[t] = buffer[t]
          /\ calls'[t] = calls[t]
          /\ running'[t] = running[t]
          /\ cancels'[t] = cancels[t]
          /\ failure'[t] = failure[t]]_vars

\* One stream cancelled before it received anything, the other still open
\* with two events delivered in order.
C5_Witness ==
  \E s, t \in Streams :
    /\ s # t
    /\ cancels[s] > 0
    /\ conn[s] = "aborted"
    /\ status[t] = "open"
    /\ Events(t) = <<OnEvent(1), OnEvent(2)>>

----------------------------------------------------------------------------
\* Permission Evaluator (utils/auth.ts)

UserIds == {"u1", "u2"}
TargetIds == {"u1", "u2", "u3"}
UserRole == {"admin", "user"}

\* User | null: null is the record with the null flag set.
NullUser == [null |-> TRUE, id |-> "", role |-> "", is_active |-> FALSE]
Users == [null : {FALSE}, id : UserIds, role : UserRole, is_active : BOOLEAN]
UserOrNull == Users \cup {NullUser}

\* No check made yet.
NoCheck == [fn |-> "none", user |-> NullUser, arg |-> "", result |-> FALSE]

\* The permission strings the checks are asked about: the ones the code
\* names, the wildcard, and one nobody defines.
Permissions ==
  {"read:profile", "update:profile", "change:password", "create:session",
   "read:session", "update:session", "delete:session", "upload:file",
   "read:file", "delete:file", "admin:access", "manage:users",
   "manage:sessions", "*", "read:audit"}

\* Bug variant: the user role may not upload files but may manage sessions.
rolePermissions_Shifted ==
  [admin |-> {"*"},
   user |-> {"read:profile", "update:profile", "change:password",
             "create:session", "read:session", "update:session",
             "delete:session", "manage:sessions", "read:file", "delete:file"}]

rolePermissions ==
  [admin |-> {"*"},
   user |-> {"read:profile", "update:profile", "change:password",
             "create:session", "read:session", "update:session",
             "delete:session", "upload:file", "read:file", "delete:file"}]

\* rolePermissions[user.role] || []
userPermissions(role) ==
  IF role \in DOMAIN rolePermissions THEN rolePermissions[role] ELSE {}

\* Bug variant: the is_active test is missing.
hasPermission_NoActiveCheck(user, permission) ==
  IF user.null THEN FALSE
  ELSE IF user.role = "admin" THEN TRUE
  ELSE "*" \in userPermissions(user.role) \/ permission \in userPermissions(user.role)

\* Bug variant: every role is looked up in its list by exact match.
hasPermission_ListOnly(user, permission) ==
  IF user.null \/ ~user.is_active THEN FALSE
  ELSE permission \in userPermissions(user.role)

hasPermission(user, permission) ==
  IF user.null \/ ~user.is_active THEN FALSE
  ELSE IF user.role = "admin" THEN TRUE
  ELSE "*" \in userPermissions(user.role) \/ permission \in userPermissions(user.role)

canAccessAdmin(user) == hasPermission(user, "admin:access")

\* user?.role === 'admin' is false for null
canManageUsers(user) ==
  hasPermission(user, "manage:users") \/ (~user.null /\ user.role = "admin")

canManageSessions(user) == hasPermission(user, "manage:sessions")

canUploadFiles(user) == hasPermission(user, "upload:file")

\* Bug variant: the own-record rule is missing.
canViewUser_AdminOnly(currentUser, targetUserId) ==
  IF currentUser.null \/ ~currentUser.is_active THEN FALSE
  ELSE currentUser.role = "admin"

canViewUser(currentUser, targetUserId) ==
  IF currentUser.null \/ ~currentUser.is_active THEN FALSE
  ELSE IF currentUser.id = targetUserId THEN TRUE
  ELSE currentUser.role = "admin"

canEditUser(currentUser, targetUserId) ==
  IF currentUser.null \/ ~currentUser.is_active THEN FALSE
  ELSE IF currentUser.id = targetUserId THEN TRUE
  ELSE currentUser.role = "admin"

\* Bug variant: the self-deletion test is missing.
canDeleteUser_NoSelfCheck(currentUser, targetUserId) ==
  IF currentUser.null \/ ~currentUser.is_active THEN FALSE
  ELSE currentUser.role = "admin"

canDeleteUser(currentUser, targetUserId) ==
  IF currentUser.null \/ ~currentUser.is_active THEN FALSE
  ELSE IF currentUser.id = targetUserId THEN FALSE
  ELSE currentUser.role = "admin"

\* One call of a check: its arguments and what it returned.
Evaluate(fn, user, arg, result) ==
  /\ check' = [fn |-> fn, user |-> user, arg |-> arg, result |-> result]
  /\ UNCHANGED <<streamVars, routerVars, tokenVars, loginVars, apiVars, chatVars>>

CallHasPermission(u, p) == Evaluate("hasPermission", u, p, hasPermission(u, p))

CallCanAccessAdmin(u) == Evaluate("canAccessAdmin", u, "", canAccessAdmin(u))

CallCanManageUsers(u) == Evaluate("canManageUsers", u, "", canManageUsers(u))

CallCanManageSessions(u) == Evaluate("canManageSessions", u, "", canManageSessions(u))

CallCanUploadFiles(u) == Evaluate("canUploadFiles", u, "", canUploadFiles(u))

CallCanViewUser(u, id) == Evaluate("canViewUser", u, id, canViewUser(u, id))

CallCanEditUser(u, id) == Evaluate("canEditUser", u, id, canEditUser(u, id))

CallCanDeleteUser(u, id) == Evaluate("canDeleteUser", u, id, canDeleteUser(u, id))

NextPerm ==
  \E u \in UserOrNull :
    \/ \E p \in Permissions : CallHasPermission(u, p)
    \/ CallCanAccessAdmin(u)
    \/ CallCanManageUsers(u)
    \/ CallCanManageSessions(u)
    \/ CallCanUploadFiles(u)
    \/ \E id \in TargetIds :
         \/ CallCanViewUser(u, id)
         \/ CallCanEditUser(u, id)
         \/ CallCanDeleteUser(u, id)

----------------------------------------------------------------------------
\* Capability Token Gateway (api/file.ts getFileDownloadUrl, api/agent.ts
\* getVNCUrl, over the token-mint call of api/auth)

\* Access tokens the backend mints, at most.
MaxTokens == 3

\* getFileDownloadUrl invocations that can be in flight at once.
TokenCalls == {"d1", "d2"}
FileIds == {"f1", "f2"}
SessionIds == {"s1", "s2"}

\* Strings are sequences of characters; the rest of a base URL after its
\* scheme is one element.
Http == <<"h", "t", "t", "p">>
Https == <<"h", "t", "t", "p", "s">>
BaseUrl(scheme) == scheme \o <<"://host/api/v1">>
BaseUrls == {BaseUrl(Http), BaseUrl(Https)}

NoToken == [scope |-> "none", resource |-> "", serial |-> 0]
NoUrl == [base |-> <<>>, path |-> <<>>, token |-> NoToken]
NoVncCall == [base |-> <<>>, sessionId |-> "", url |-> NoUrl]
IdleCall == [pc |-> "idle", fileId |-> "", url |-> NoUrl, error |-> "none"]

\* BASE_URL.replace(/^http/, 'ws')
ReplaceHttpByWs(str) ==
  IF Len(str) >= 4 /\ SubSeq(str, 1, 4) = Http
    THEN <<"w", "s">> \o SubSeq(str, 5, Len(str))
    ELSE str

\* `${wsBaseUrl}/sessions/${sessionId}/vnc`: no query string.
getVNCUrl(base, sessionId) ==
  [base |-> ReplaceHttpByWs(base),
   path |-> <<"sessions", sessionId, "vnc">>,
   token |-> NoToken]

\* The remote-desktop viewer asks for a session's socket URL.
CallGetVNCUrl(base, sessionId) ==
  /\ vncCall' = [base |-> base, sessionId |-> sessionId,
                 url |-> getVNCUrl(base, sessionId)]
  /\ UNCHANGED <<streamVars, routerVars, check, loginVars, apiVars, chatVars, tcall, issued>>

\* The backend mints a token: scope, target resource, and an opaque value
\* that is new each time.
Mint(scope, resourceId) ==
  [scope |-> scope, resource |-> resourceId, serial |-> Len(issued) + 1]

\* A vnc-scope token is minted for a session (the viewer's own mint call).
MintVncToken(sessionId) ==
  /\ Len(issued) < MaxTokens
  /\ issued' = Append(issued, [by |-> "viewer", token |-> Mint("vnc", sessionId)])
  /\ UNCHANGED <<streamVars, routerVars, check, loginVars, apiVars, chatVars, tcall, vncCall>>

\* getFileDownloadUrl(fileId): up to the await of createFileAccessToken.
getFileDownloadUrl(c, fileId) ==
  /\ tcall[c].pc = "idle"
  /\ tcall' = [tcall EXCEPT ![c] = [IdleCall EXCEPT !.pc = "minting", !.fileId = fileId]]
  /\ UNCHANGED <<streamVars, routerVars, check, loginVars, apiVars, chatVars, issued, vncCall>>

\* Bug variant: the first file token minted is kept and used for every URL.
TokenUsed_CachedFile(tokenResponse) ==
  LET Held == {i \in 1..Len(issued) : issued[i].token.scope = "file"}
  IN IF Held = {} THEN tokenResponse
     ELSE issued[CHOOSE i \in Held : \A j \in Held : i <= j].token

\* Bug variant: the first token minted, of whatever scope, is kept and used.
TokenUsed_CachedAny(tokenResponse) ==
  IF issued = <<>> THEN tokenResponse ELSE issued[1].token

\* tokenResponse.access_token: the token of this invocation's mint call.
TokenUsed(tokenResponse) == tokenResponse

\* `${apiClient.defaults.baseURL}/files/${fileId}?token=${...}`
FileUrl(base, fileId, token) ==
  [base |-> base, path |-> <<"files", fileId>>, token |-> token]

\* The mint call succeeds and the function returns the URL.
MintReturns(c, base) ==
  /\ tcall[c].pc = "minting"
  /\ Len(issued) < MaxTokens
  /\ LET tokenResponse == Mint("file", tcall[c].fileId)
         url == FileUrl(base, tcall[c].fileId, TokenUsed(tokenResponse))
     IN /\ issued' = Append(issued, [by |-> c, token |-> tokenResponse])
        /\ tcall' = [tcall EXCEPT ![c].pc = "done", ![c].url = url]
  /\ UNCHANGED <<streamVars, routerVars, check, loginVars, apiVars, chatVars, vncCall>>

\* Bug variant: a failed mint falls back to the URL without a token.
AfterMintFailure_PlainUrl(c, base, kind) ==
  LET url == FileUrl(base, tcall[c].fileId, NoToken)
  IN tcall' = [tcall EXCEPT ![c].pc = "done", ![c].url = url]

\* The await throws: the function rejects with the mint call's failure.
AfterMintFailure(c, base, kind) ==
  tcall' = [tcall EXCEPT ![c].pc = "failed", ![c].error = kind]

\* The mint call fails.
MintFails(c, base, kind) ==
  /\ tcall[c].pc = "minting"
  /\ AfterMintFailure(c, base, kind)
  /\ UNCHANGED <<streamVars, routerVars, check, loginVars, apiVars, chatVars, issued, vncCall>>

\* The caller has taken the result; the slot serves the next invocation.
TokenCallEnds(c) ==
  /\ tcall[c].pc \in {"done", "failed"}
  /\ tcall' = [tcall EXCEPT ![c] = IdleCall]
  /\ UNCHANGED <<streamVars, routerVars, check, loginVars, apiVars, chatVars, issued, vncCall>>

InitToken ==
  /\ tcall = [c \in TokenCalls |-> IdleCall]
  /\ issued = <<>>
  /\ vncCall = NoVncCall

NextToken ==
  \/ \E b \in BaseUrls, id \in SessionIds : CallGetVNCUrl(b, id)
  \/ \E id \in SessionIds : MintVncToken(id)
  \/ \E c \in TokenCalls :
       \/ \E f \in FileIds : getFileDownloadUrl(c, f)
       \/ \E b \in BaseUrls : MintReturns(c, b)
       \/ \E b \in BaseUrls, kind \in {"Unauthorized", "NotFound", "Transport"} :
            MintFails(c, b, kind)
       \/ TokenCallEnds(c)

----------------------------------------------------------------------------
\* Login page (pages/LoginPage.vue) and validateUserInput (utils/auth.ts)

\* login/register calls recorded, at most.
MaxAuthCalls == 2

\* n times the character "a".
Rep(n) == [i \in 1..n |-> "a"]

\* What the user can type into the fields.
UsernameInputs == {<<>>, <<"a", "b">>, <<"a", "b", "c">>, <<"a", " ", "b">>,
                   <<" ", "a", "b", " ">>}
EmailInputs == {<<>>, <<"a", "@", "b">>, <<"a", "@", "b", ".", "c">>}
PasswordInputs == {Rep(0), Rep(5), Rep(6), Rep(7)}
Fields == {"username", "email", "password", "confirmPassword"}
FieldInputs(field) ==
  CASE field = "username" -> UsernameInputs
    [] field = "email" -> EmailInputs
    [] OTHER -> PasswordInputs

\* String.prototype.trim
RECURSIVE TrimLeft(_)
TrimLeft(str) ==
  IF str # <<>> /\ str[1] = " " THEN TrimLeft(SubSeq(str, 2, Len(str))) ELSE str

RECURSIVE TrimRight(_)
TrimRight(str) ==
  IF str # <<>> /\ str[Len(str)] = " "
    THEN TrimRight(SubSeq(str, 1, Len(str) - 1)) ELSE str

Trim(str) == TrimRight(TrimLeft(str))

\* /^[a-zA-Z0-9_-]+$/
UsernameRegex(str) ==
  /\ str # <<>>
  /\ \A i \in 1..Len(str) : str[i] \in {"a", "b", "c", "1", "_", "-"}

\* /^[^\s@]+@[^\s@]+\.[^\s@]+$/
EmailRegex(str) ==
  \E i, j \in 1..Len(str) :
    /\ 1 < i
    /\ i + 1 < j
    /\ j < Len(str)
    /\ str[i] = "@"
    /\ str[j] = "."
    /\ \A k \in (1..Len(str)) \ {i} : str[k] \notin {" ", "@"}

\* validateUserInput(data).errors, as the set of its keys; data holds the
\* fields that are not undefined.
validateUserInput(data) ==
  {f \in DOMAIN data :
     \/ /\ f = "username"
        /\ \/ data[f] = <<>>
           \/ Len(Trim(data[f])) < 3
           \/ ~UsernameRegex(data[f])
     \/ /\ f = "email"
        /\ (data[f] = <<>> \/ ~EmailRegex(data[f]))
     \/ /\ f = "password"
        /\ (data[f] = <<>> \/ Len(data[f]) < 6)}

\* The object validateForm hands to validateUserInput.
FormInput(form, registering) ==
  IF registering
    THEN [f \in {"username", "email", "password"} |-> form[f]]
    ELSE [f \in {"email", "password"} |-> form[f]]

\* Bug variant: the confirmation is not compared with the password.
validateForm_NoConfirm(form, registering) ==
  validateUserInput(FormInput(form, registering))

\* validateForm: the errors it stores; it returns whether there are none.
validateForm(form, registering) ==
  validateUserInput(FormInput(form, registering))
    \cup (IF registering /\ form.password # form.confirmPassword
            THEN {"confirmPassword"} ELSE {})

\* validateField(field): the errors it leaves.
validateField(field, form, registering, errs) ==
  LET errors ==
        (IF field = "username" /\ registering
           THEN validateUserInput([f \in {"username"} |-> form.username]) ELSE {})
        \cup (IF field = "email"
                THEN validateUserInput([f \in {"email"} |-> form.email]) ELSE {})
        \cup (IF field = "password"
                THEN validateUserInput([f \in {"password"} |-> form.password]) ELSE {})
        \cup (IF field = "confirmPassword" /\ registering
                   /\ form.password # form.confirmPassword
                THEN {"confirmPassword"} ELSE {})
  IN IF field \in errors THEN errs \cup errors ELSE (errs \cup errors) \ {field}

EmptyForm == [username |-> <<>>, email |-> <<>>, password |-> <<>>,
              confirmPassword |-> <<>>]

\* The user types into a field: v-model, @input="validateField(field)", and
\* for the password the watcher that re-validates the confirmation. The
\* username and confirmation inputs exist in register mode only.
Input(field, value) ==
  /\ field \in {"username", "confirmPassword"} => isRegistering
  /\ LET form == [formData EXCEPT ![field] = value]
         errs == validateField(field, form, isRegistering, validationErrors)
     IN /\ formData' = form
        /\ validationErrors' =
             IF field = "password" /\ value # formData.password
                  /\ isRegistering /\ form.confirmPassword # <<>>
               THEN validateField("confirmPassword", form, isRegistering, errs)
               ELSE errs
  /\ UNCHANGED <<streamVars, routerVars, check, tokenVars, apiVars, chatVars, isRegistering, authLog, submitTick>>

\* A field loses the focus: @blur="validateField(field)".
Blur(field) ==
  /\ field \in {"username", "confirmPassword"} => isRegistering
  /\ validationErrors' = validateField(field, formData, isRegistering, validationErrors)
  /\ UNCHANGED <<streamVars, routerVars, check, tokenVars, apiVars, chatVars, isRegistering, formData, authLog,
                 submitTick>>

\* toggleMode, with the clearForm it calls.
toggleMode ==
  /\ isRegistering' = ~isRegistering
  /\ formData' = EmptyForm
  /\ validationErrors' = {}
  /\ UNCHANGED <<streamVars, routerVars, check, tokenVars, apiVars, chatVars, authLog, submitTick>>

\* Bug variant: login is called in either mode.
AuthCall_AlwaysLogin(form, registering) ==
  [fn |-> "login", username |-> form.email, email |-> <<>>,
   password |-> form.password]

\* The call handleSubmit makes once validateForm has passed.
AuthCall(form, registering) ==
  IF registering
    THEN [fn |-> "register", username |-> form.username, email |-> form.email,
          password |-> form.password]
    ELSE [fn |-> "login", username |-> form.email, email |-> <<>>,
          password |-> form.password]

\* handleSubmit: validateForm, then register or login. What follows the
\* await (toast, navigation) leaves the form alone.
handleSubmit ==
  LET errs == validateForm(formData, isRegistering)
  IN /\ validationErrors' = errs
     /\ submitTick' = ~submitTick
     /\ IF errs # {}
          THEN UNCHANGED authLog
          ELSE /\ Len(authLog) < MaxAuthCalls
               /\ authLog' = Append(authLog, AuthCall(formData, isRegistering))
     /\ UNCHANGED <<streamVars, routerVars, check, tokenVars, apiVars, chatVars, isRegistering, formData>>

InitLogin ==
  /\ isRegistering = FALSE
  /\ formData = EmptyForm
  /\ validationErrors = {}
  /\ authLog = <<>>
  /\ submitTick = FALSE

NextLogin ==
  \/ \E field \in Fields : \E value \in FieldInputs(field) : Input(field, value)
  \/ \E field \in Fields : Blur(field)
  \/ toggleMode
  \/ handleSubmit

----------------------------------------------------------------------------
\* Session, file and share clients (api/agent.ts, api/file.ts) over apiClient
\* and the backend

\* Share pairs the backend issues, at most.
MaxShares == 2

ApiCallers == {"a1", "a2"}
ApiSessionIds == {"s1"}
ShareNumbers == 1..MaxShares

Req(method, route, id, shareId, shareToken) ==
  [method |-> method, route |-> route, id |-> id, shareId |-> shareId,
   xShareToken |-> shareToken]

NoData == [id |-> "", shareId |-> 0, shareToken |-> 0]
NoResponse == [status |-> "none", body |-> [success |-> FALSE, data |-> NoData]]
NoResult == [kind |-> "none", data |-> NoData]
NoArgs == [id |-> "", shareId |-> 0, shareToken |-> 0]
IdleApiCall == [op |-> "", args |-> NoArgs, pc |-> "idle", requests |-> <<>>,
                response |-> NoResponse, result |-> NoResult]

\* The request each wrapper hands to apiClient.
createSession == Req("PUT", "/sessions", "", 0, 0)
getSession(sessionId) == Req("GET", "/sessions/{id}", sessionId, 0, 0)
getSessions == Req("GET", "/sessions", "", 0, 0)
deleteSession(sessionId) == Req("DELETE", "/sessions/{id}", sessionId, 0, 0)
stopSession(sessionId) == Req("POST", "/sessions/{id}/stop", sessionId, 0, 0)
getSessionFiles(sessionId) == Req("GET", "/sessions/{id}/files", sessionId, 0, 0)
shareSession(sessionId) == Req("POST", "/sessions/{id}/share", sessionId, 0, 0)
cancelShareSession(sessionId) ==
  Req("DELETE", "/sessions/{id}/share", sessionId, 0, 0)

\* Bug variant: the header carries the share id, not the token argument.
ShareHeader_FromId(shareId, shareToken) == shareId

\* headers: { 'X-Share-Token': shareToken }
ShareHeader(shareId, shareToken) == shareToken

getSharedSession(shareId, shareToken) ==
  Req("GET", "/sessions/shared/{shareId}", "", shareId,
      ShareHeader(shareId, shareToken))
uploadFile == Req("POST", "/files", "", 0, 0)
downloadFile(fileId) == Req("GET", "/files/{id}", fileId, 0, 0)
deleteFile(fileId) == Req("DELETE", "/files/{id}", fileId, 0, 0)
getFileInfo(fileId) == Req("GET", "/files/{id}", fileId, 0, 0)

SessionOps == {"getSession", "deleteSession", "stopSession", "getSessionFiles",
               "shareSession", "cancelShareSession"}
FileOps == {"downloadFile", "deleteFile", "getFileInfo"}
MutatingOps == {"createSession", "stopSession", "deleteSession", "shareSession",
                "cancelShareSession"}
PayloadOps == {"createSession", "getSession", "getSessions", "getSessionFiles",
               "shareSession", "getSharedSession", "uploadFile"}
ApiOps == SessionOps \cup FileOps
            \cup {"createSession", "getSessions", "getSharedSession", "uploadFile"}

RequestOf(op, id, shareId, shareToken) ==
  CASE op = "createSession" -> createSession
    [] op = "getSession" -> getSession(id)
    [] op = "getSessions" -> getSessions
    [] op = "deleteSession" -> deleteSession(id)
    [] op = "stopSession" -> stopSession(id)
    [] op = "getSessionFiles" -> getSessionFiles(id)
    [] op = "shareSession" -> shareSession(id)
    [] op = "cancelShareSession" -> cancelShareSession(id)
    [] op = "getSharedSession" -> getSharedSession(shareId, shareToken)
    [] op = "uploadFile" -> uploadFile
    [] op = "downloadFile" -> downloadFile(id)
    [] op = "deleteFile" -> deleteFile(id)
    [] op = "getFileInfo" -> getFileInfo(id)

\* A caller invokes a wrapper: the wrapper awaits its one apiClient call.
Invoke(c, op, id, shareId, shareToken) ==
  /\ acall[c].pc = "idle"
  /\ acall' = [acall EXCEPT
       ![c] = [IdleApiCall EXCEPT
                 !.op = op, !.pc = "sent",
                 !.args = [id |-> id, shareId |-> shareId, shareToken |-> shareToken],
                 !.requests = <<RequestOf(op, id, shareId, shareToken)>>]]
  /\ UNCHANGED <<streamVars, routerVars, check, tokenVars, loginVars, chatVars, sessions, share,
                 shareSerial, files>>

InvokeSessionOp(c) ==
  \E op \in SessionOps : \E id \in ApiSessionIds : Invoke(c, op, id, 0, 0)

InvokeFileOp(c) ==
  \E op \in FileOps : \E id \in FileIds : Invoke(c, op, id, 0, 0)

InvokePlainOp(c) ==
  \E op \in {"createSession", "getSessions", "uploadFile"} : Invoke(c, op, "", 0, 0)

InvokeGetSharedSession(c) ==
  \E shareId, shareToken \in ShareNumbers :
    Invoke(c, "getSharedSession", "", shareId, shareToken)

\* The backend: which requests it serves.
Live(id) == id \in ApiSessionIds /\ sessions[id] \in {"running", "stopped"}

Accepts(req) ==
  CASE req.route = "/sessions" /\ req.method = "PUT" ->
         \E id \in ApiSessionIds : sessions[id] = "absent"
    [] req.route = "/sessions" /\ req.method = "GET" -> TRUE
    [] req.route = "/sessions/{id}" -> Live(req.id)
    [] req.route = "/sessions/{id}/files" -> Live(req.id)
    [] req.route = "/sessions/{id}/stop" ->
         req.id \in ApiSessionIds /\ sessions[req.id] = "running"
    [] req.route = "/sessions/{id}/share" /\ req.method = "POST" ->
         Live(req.id) /\ shareSerial < MaxShares
    [] req.route = "/sessions/{id}/share" /\ req.method = "DELETE" ->
         Live(req.id) /\ share[req.id] # 0
    [] req.route = "/sessions/shared/{shareId}" ->
         \E id \in ApiSessionIds :
           /\ share[id] # 0
           /\ share[id] = req.shareId
           /\ share[id] = req.xShareToken
    [] req.route = "/files" -> files # FileIds
    [] req.route = "/files/{id}" -> req.id \in files
    [] OTHER -> FALSE

\* The payload of the envelope of a served request.
DataFor(req) ==
  CASE req.route = "/sessions" /\ req.method = "PUT" ->
         [NoData EXCEPT !.id = CHOOSE id \in ApiSessionIds : sessions[id] = "absent"]
    [] req.route = "/sessions" /\ req.method = "GET" -> [NoData EXCEPT !.id = "list"]
    [] req.route = "/sessions/{id}/share" /\ req.method = "POST" ->
         [id |-> req.id, shareId |-> shareSerial + 1, shareToken |-> shareSerial + 1]
    [] req.route = "/sessions/shared/{shareId}" ->
         [NoData EXCEPT !.id = CHOOSE id \in ApiSessionIds : share[id] = req.shareId]
    [] req.route = "/files" -> [NoData EXCEPT !.id = CHOOSE f \in FileIds : f \notin files]
    [] req.method = "GET" -> [NoData EXCEPT !.id = req.id]
    [] OTHER -> NoData

\* The effect of a served request on the backend.
Apply(req) ==
  /\ sessions' =
       CASE req.route = "/sessions" /\ req.method = "PUT" ->
              [sessions EXCEPT ![DataFor(req).id] = "running"]
         [] req.route = "/sessions/{id}/stop" -> [sessions EXCEPT ![req.id] = "stopped"]
         [] req.route = "/sessions/{id}" /\ req.method = "DELETE" ->
              [sessions EXCEPT ![req.id] = "deleted"]
         [] OTHER -> sessions
  /\ share' =
       CASE req.route = "/sessions/{id}/share" /\ req.method = "POST" ->
              [share EXCEPT ![req.id] = shareSerial + 1]
         [] req.route = "/sessions/{id}/share" /\ req.method = "DELETE" ->
              [share EXCEPT ![req.id] = 0]
         [] req.route = "/sessions/{id}" /\ req.method = "DELETE" ->
              [share EXCEPT ![req.id] = 0]
         [] OTHER -> share
  /\ shareSerial' =
       IF req.route = "/sessions/{id}/share" /\ req.method = "POST"
         THEN shareSerial + 1 ELSE shareSerial
  /\ files' =
       CASE req.route = "/files" -> files \cup {DataFor(req).id}
         [] req.route = "/files/{id}" /\ req.method = "DELETE" -> files \ {req.id}
         [] OTHER -> files

\* How the backend refuses: an envelope with success false, or a non-2xx
\* status.
Refusals == {"envelope", "status"}

ResponseTo(req, refusal) ==
  IF Accepts(req)
    THEN [status |-> "2xx", body |-> [success |-> TRUE, data |-> DataFor(req)]]
    ELSE IF refusal = "envelope"
      THEN [status |-> "2xx", body |-> [success |-> FALSE, data |-> NoData]]
      ELSE [status |-> "error", body |-> [success |-> FALSE, data |-> NoData]]

NetworkError == [status |-> "network", body |-> [success |-> FALSE, data |-> NoData]]

\* apiClient resolves the awaited call with the response, or rejects it.
ApiClientResolves(response) == response.status = "2xx" /\ response.body.success

Failed(response) == ~ApiClientResolves(response)

\* Bug variant: the whole envelope is returned.
Unwrap_Envelope(response) == [NoData EXCEPT !.id = "envelope"]

\* return response.data.data
Unwrap(response) == response.body.data

\* Bug variant: a refused stop is sent once more.
Retries_RefusedStop(op, requests, response) ==
  op = "stopSession" /\ Failed(response) /\ Len(requests) < 2

\* No wrapper has a loop or a second apiClient call.
Retries(op, requests, response) == FALSE

\* deleteFile and getFileInfo catch the rejection.
Swallows(op) == op \in {"deleteFile", "getFileInfo"}

\* What the wrapper does once the awaited call has settled.
Completion(op, response) ==
  IF ApiClientResolves(response)
    THEN CASE op \in PayloadOps \cup {"getFileInfo"} ->
                [pc |-> "returned", result |-> [kind |-> "value", data |-> Unwrap(response)]]
           [] op = "downloadFile" ->
                [pc |-> "returned", result |-> [kind |-> "value", data |-> response.body.data]]
           [] op = "deleteFile" ->
                [pc |-> "returned", result |-> [kind |-> "true", data |-> NoData]]
           [] OTHER ->
                [pc |-> "returned", result |-> [kind |-> "void", data |-> NoData]]
    ELSE IF Swallows(op)
      THEN [pc |-> "returned",
            result |-> [kind |-> IF op = "deleteFile" THEN "false" ELSE "null",
                        data |-> NoData]]
      ELSE [pc |-> "thrown", result |-> [kind |-> "error", data |-> NoData]]

Continue(c, response) ==
  IF Retries(acall[c].op, acall[c].requests, response)
    THEN acall' = [acall EXCEPT ![c].requests = Append(@, Last(@))]
    ELSE acall' = [acall EXCEPT
           ![c].pc = Completion(acall[c].op, response).pc,
           ![c].response = response,
           ![c].result = Completion(acall[c].op, response).result]

\* The backend answers the request in flight and the wrapper goes on.
ApiRespond(c, refusal) ==
  /\ acall[c].pc = "sent"
  /\ LET req == Last(acall[c].requests)
     IN /\ IF Accepts(req)
             THEN Apply(req)
             ELSE UNCHANGED <<sessions, share, shareSerial, files>>
        /\ Continue(c, ResponseTo(req, refusal))
  /\ UNCHANGED <<streamVars, routerVars, check, tokenVars, loginVars, chatVars>>

\* The request does not reach the backend.
ApiNetworkFailure(c) ==
  /\ acall[c].pc = "sent"
  /\ Continue(c, NetworkError)
  /\ UNCHANGED <<streamVars, routerVars, check, tokenVars, loginVars, chatVars, sessions, share,
                 shareSerial, files>>

\* The caller has taken the outcome.
ApiCallEnds(c) ==
  /\ acall[c].pc \in {"returned", "thrown"}
  /\ acall' = [acall EXCEPT ![c] = IdleApiCall]
  /\ UNCHANGED <<streamVars, routerVars, check, tokenVars, loginVars, chatVars, sessions, share,
                 shareSerial, files>>

InitApi ==
  /\ acall = [c \in ApiCallers |-> IdleApiCall]
  /\ sessions = [id \in ApiSessionIds |-> "absent"]
  /\ share = [id \in ApiSessionIds |-> 0]
  /\ shareSerial = 0
  /\ files = {}

NextApi ==
  \E c \in ApiCallers :
    \/ InvokeSessionOp(c)
    \/ InvokeFileOp(c)
    \/ InvokePlainOp(c)
    \/ InvokeGetSharedSession(c)
    \/ \E refusal \in Refusals : ApiRespond(c, refusal)
    \/ ApiNetworkFailure(c)
    \/ ApiCallEnds(c)

----------------------------------------------------------------------------
\* Chat box (components/ChatBox.vue)

\* Uploads started, at most.
MaxUploads == 2

\* attachment = ref(null); an uploaded attachment is the number of its upload.
NoAttachment == 0

TextInputs == {<<>>, <<" ">>, <<"a">>, <<" ", "a">>}

NoSubmit == [message |-> <<>>, attachments |-> <<>>]

\* The parent follows update:modelValue; the watcher recomputes hasTextInput.
SetModelValue(value) ==
  /\ value # modelValue
  /\ modelValue' = value
  /\ hasTextInput' = (Trim(value) # <<>>)
  /\ UNCHANGED <<streamVars, routerVars, check, tokenVars, loginVars, apiVars, isComposing,
                 attachment, uploading, uploads, lastSubmit, sentAttachments,
                 chatTick>>

\* @compositionstart / @compositionend
SetComposing(value) ==
  /\ isComposing' = value
  /\ UNCHANGED <<streamVars, routerVars, check, tokenVars, loginVars, apiVars, modelValue,
                 hasTextInput, attachment, uploading, uploads, lastSubmit,
                 sentAttachments, chatTick>>

\* handleFileChange up to its await; the file input is disabled while an
\* upload is in flight.
handleFileChange ==
  /\ ~uploading
  /\ uploads < MaxUploads
  /\ uploading' = TRUE
  /\ uploads' = uploads + 1
  /\ UNCHANGED <<streamVars, routerVars, check, tokenVars, loginVars, apiVars, modelValue,
                 hasTextInput, isComposing, attachment, lastSubmit,
                 sentAttachments, chatTick>>

\* handleFileChange after its await: uploadAttachment returned data, returned
\* nothing, or threw.
UploadSettles(outcome) ==
  /\ uploading
  /\ attachment' = IF outcome = "data" THEN uploads ELSE attachment
  /\ uploading' = FALSE
  /\ UNCHANGED <<streamVars, routerVars, check, tokenVars, loginVars, apiVars, modelValue,
                 hasTextInput, isComposing, uploads, lastSubmit, sentAttachments,
                 chatTick>>

removeAttachment ==
  /\ attachment' = NoAttachment
  /\ UNCHANGED <<streamVars, routerVars, check, tokenVars, loginVars, apiVars, modelValue,
                 hasTextInput, isComposing, uploading, uploads, lastSubmit,
                 sentAttachments, chatTick>>

\* Bug variant: the slot keeps the attachment after the submit.
SlotAfterSubmit_Kept(slot) == slot

\* attachment.value = null
SlotAfterSubmit(slot) == NoAttachment

\* attachments: attachment.value ? [attachment.value] : []
SubmitAttachments(slot) == IF slot # NoAttachment THEN <<slot>> ELSE <<>>

\* handleSubmit of the chat box.
ChatSubmit ==
  IF ~hasTextInput
    THEN UNCHANGED chatVars
    ELSE /\ lastSubmit' = [message |-> modelValue,
                           attachments |-> SubmitAttachments(attachment)]
         /\ sentAttachments' = sentAttachments \o SubmitAttachments(attachment)
         /\ chatTick' = ~chatTick
         /\ attachment' = SlotAfterSubmit(attachment)
         /\ UNCHANGED <<modelValue, hasTextInput, isComposing, uploading, uploads>>

\* A click on the send button.
ClickSend ==
  /\ ChatSubmit
  /\ UNCHANGED <<streamVars, routerVars, check, tokenVars, loginVars, apiVars>>

\* Enter in the text area.
handleEnterKeydown ==
  /\ IF isComposing THEN UNCHANGED chatVars
       ELSE IF hasTextInput THEN ChatSubmit ELSE UNCHANGED chatVars
  /\ UNCHANGED <<streamVars, routerVars, check, tokenVars, loginVars, apiVars>>

InitChat ==
  /\ modelValue = <<>>
  /\ hasTextInput = FALSE
  /\ isComposing = FALSE
  /\ attachment = NoAttachment
  /\ uploading = FALSE
  /\ uploads = 0
  /\ lastSubmit = NoSubmit
  /\ sentAttachments = <<>>
  /\ chatTick = FALSE

NextChat ==
  \/ \E value \in TextInputs : SetModelValue(value)
  \/ \E value \in BOOLEAN : SetComposing(value)
  \/ handleFileChange
  \/ \E outcome \in {"data", "nothing", "throws"} : UploadSettles(outcome)
  \/ removeAttachment
  \/ ClickSend
  \/ handleEnterKeydown

----------------------------------------------------------------------------
\* Router and its global guard (main.ts)

\* Redirects of one navigation, at most.
MaxRedirects == 3

Paths == {"/", "/home", "/chat", "/chat/s1", "/login", "/other"}
StoredTokens == {"null", "token"}

\* The route records: /chat with its children (the empty child is also
\* reached by the aliases / and /home), and /login.
ChatRecord == [path |-> "/chat", requiresAuth |-> TRUE]
HomeRecord == [path |-> "", requiresAuth |-> TRUE]
SessionRecord == [path |-> ":sessionId", requiresAuth |-> TRUE]
LoginRecord == [path |-> "/login", requiresAuth |-> FALSE]

\* to.matched
Matched(path) ==
  CASE path \in {"/chat", "/", "/home"} -> <<ChatRecord, HomeRecord>>
    [] path = "/chat/s1" -> <<ChatRecord, SessionRecord>>
    [] path = "/login" -> <<LoginRecord>>
    [] OTHER -> <<>>

\* to.matched.some(record => record.meta?.requiresAuth)
RequiresAuth(path) ==
  \E i \in 1..Len(Matched(path)) : Matched(path)[i].requiresAuth

\* !!getStoredToken()
HasToken(token) == token # "null"

Allow == [kind |-> "allow", path |-> "", redirect |-> ""]
RedirectTo(path, redirect) == [kind |-> "redirect", path |-> path, redirect |-> redirect]

\* Bug variant: /login is always let through.
beforeEach_LoginOpen(to, token) ==
  IF RequiresAuth(to) /\ ~HasToken(token)
    THEN RedirectTo("/login", to)
    ELSE Allow

\* router.beforeEach: what the guard hands to next.
beforeEach(to, token) ==
  IF RequiresAuth(to) /\ ~HasToken(token)
    THEN RedirectTo("/login", to)
    ELSE IF to = "/login" /\ HasToken(token)
      THEN RedirectTo("/", "")
      ELSE Allow

NoNavigation == [pc |-> "idle", requested |-> "", to |-> "", redirect |-> "",
                 redirects |-> 0, tokenChanged |-> FALSE]

\* router.push(path), a link, or the first navigation of the page.
Navigate(path) ==
  /\ nav.pc = "idle"
  /\ nav' = [NoNavigation EXCEPT !.pc = "guard", !.requested = path, !.to = path]
  /\ UNCHANGED <<streamVars, check, tokenVars, loginVars, apiVars, chatVars,
                 storedToken, currentRoute>>

\* The guard runs for the navigation under way: the route is entered, or the
\* navigation goes on to the redirect target.
GuardRuns ==
  /\ nav.pc = "guard"
  /\ LET decision == beforeEach(nav.to, storedToken)
     IN IF decision.kind = "allow"
          THEN /\ currentRoute' = nav.to
               /\ nav' = [nav EXCEPT !.pc = "idle"]
          ELSE /\ nav.redirects < MaxRedirects
               /\ nav' = [nav EXCEPT !.to = decision.path,
                                     !.redirect = decision.redirect,
                                     !.redirects = @ + 1]
               /\ UNCHANGED currentRoute
  /\ UNCHANGED <<streamVars, check, tokenVars, loginVars, apiVars, chatVars,
                 storedToken>>

\* A login stores a token, a logout removes it.
SetStoredToken(token) ==
  /\ token # storedToken
  /\ storedToken' = token
  /\ nav' = IF nav.pc = "guard" THEN [nav EXCEPT !.tokenChanged = TRUE] ELSE nav
  /\ UNCHANGED <<streamVars, check, tokenVars, loginVars, apiVars, chatVars,
                 currentRoute>>

InitRouter ==
  /\ storedToken = "null"
  /\ nav = NoNavigation
  /\ currentRoute = ""

NextRouter ==
  \/ \E path \in Paths : Navigate(path)
  \/ GuardRuns
  \/ \E token \in StoredTokens : SetStoredToken(token)

Init ==
  /\ InitStream
  /\ check = NoCheck
  /\ InitToken
  /\ InitLogin
  /\ InitApi
  /\ InitChat
  /\ InitRouter

SpecStream == Init /\ [][NextStream]_vars

SpecPerm == Init /\ [][NextPerm]_vars

SpecToken == Init /\ [][NextToken]_vars

SpecLogin == Init /\ [][NextLogin]_vars

SpecApi == Init /\ [][NextApi]_vars

SpecChat == Init /\ [][NextChat]_vars

SpecRouter == Init /\ [][NextRouter]_vars

Next ==
  \/ NextStream
  \/ NextPerm
  \/ NextToken
  \/ NextLogin
  \/ NextApi
  \/ NextChat
  \/ NextRouter

Spec == Init /\ [][Next]_vars

----------------------------------------------------------------------------
\* Properties of the Permission Evaluator

Checked(fn) == check.fn = fn
ActiveUser == ~check.user.null /\ check.user.is_active

\* C6: hasPermission is false for a null user and for an inactive user,
\* whatever the role and the permission.
MissingOrInactiveDenied ==
  (Checked("hasPermission") /\ (check.user.null \/ ~check.user.is_active))
    => check.result = FALSE

\* An inactive admin asked about a permission.
C6_Witness ==
  /\ Checked("hasPermission")
  /\ ~check.user.null
  /\ ~check.user.is_active
  /\ check.user.role = "admin"
  /\ check.arg = "read:profile"
  /\ check.result = FALSE

\* C7: hasPermission is true for an active admin and every permission
\* string, the ones outside the user allow-list included.
ActiveAdminAllowed ==
  (Checked("hasPermission") /\ ActiveUser /\ check.user.role = "admin")
    => check.result = TRUE

\* An active admin asked about a permission the user list lacks.
C7_Witness ==
  /\ Checked("hasPermission")
  /\ ActiveUser
  /\ check.user.role = "admin"
  /\ check.arg = "manage:sessions"
  /\ check.result = TRUE

\* The ten permission strings claim C8 lists.
C8_AllowList ==
  {"read:profile", "update:profile", "change:password", "create:session",
   "read:session", "update:session", "delete:session", "upload:file",
   "read:file", "delete:file"}

\* C8: for an active user of role user, hasPermission is true exactly for
\* the ten allow-listed strings; canAccessAdmin, canManageUsers and
\* canManageSessions are false and canUploadFiles is true.
UserRoleAllowList ==
  (ActiveUser /\ check.user.role = "user") =>
    /\ Checked("hasPermission") => (check.result = (check.arg \in C8_AllowList))
    /\ Checked("canAccessAdmin") => check.result = FALSE
    /\ Checked("canManageUsers") => check.result = FALSE
    /\ Checked("canManageSessions") => check.result = FALSE
    /\ Checked("canUploadFiles") => check.result = TRUE

\* An active user of role user asked whether they may manage sessions.
C8_Witness ==
  /\ Checked("canManageSessions")
  /\ ActiveUser
  /\ check.user.role = "user"
  /\ check.result = FALSE

\* C9 as stated: self-deletion is denied to every user, every admin may
\* delete any other account, no user-role user may delete another account.
DeleteRuleAsStated ==
  (Checked("canDeleteUser") /\ ~check.user.null) =>
    /\ (check.arg = check.user.id) => check.result = FALSE
    /\ (check.arg # check.user.id /\ check.user.role = "admin") => check.result = TRUE
    /\ (check.arg # check.user.id /\ check.user.role = "user") => check.result = FALSE

\* C9 as amended: self-deletion is denied to every user, every active admin
\* may delete any other account, an inactive admin none, and no user-role
\* user may delete another account.
DeleteRule ==
  (Checked("canDeleteUser") /\ ~check.user.null) =>
    /\ (check.arg = check.user.id) => check.result = FALSE
    /\ (check.arg # check.user.id /\ check.user.role = "admin")
         => (check.result = check.user.is_active)
    /\ (check.arg # check.user.id /\ check.user.role = "user") => check.result = FALSE

\* An active admin asked about deleting their own account.
C9_Witness ==
  /\ Checked("canDeleteUser")
  /\ ActiveUser
  /\ check.user.role = "admin"
  /\ check.arg = check.user.id
  /\ check.result = FALSE

\* C10 as stated: canViewUser and canEditUser are true for the user's own
\* record unconditionally and, for another record, exactly for admins.
ViewEditRuleAsStated ==
  ((Checked("canViewUser") \/ Checked("canEditUser")) /\ ~check.user.null) =>
    IF check.arg = check.user.id
      THEN check.result = TRUE
      ELSE check.result = (check.user.role = "admin")

\* C10 as amended: for an active user, canViewUser and canEditUser are true
\* for the user's own record and, for another record, exactly for admins;
\* for a null or inactive user they are false.
ViewEditRule ==
  (Checked("canViewUser") \/ Checked("canEditUser")) =>
    IF ActiveUser
      THEN IF check.arg = check.user.id
             THEN check.result = TRUE
             ELSE check.result = (check.user.role = "admin")
      ELSE check.result = FALSE

\* An active user of role user viewing their own record.
C10_Witness ==
  /\ Checked("canViewUser")
  /\ ActiveUser
  /\ check.user.role = "user"
  /\ check.arg = check.user.id
  /\ check.result = TRUE


----------------------------------------------------------------------------
\* Properties of the Capability Token Gateway

\* C11: when the mint call of a getFileDownloadUrl invocation fails (the
\* invocation leaves its await and no token was minted), the invocation
\* fails too and holds no URL.
NoUrlWhenMintFails ==
  [][\A c \in TokenCalls :
        (tcall[c].pc = "minting" /\ tcall'[c].pc # "minting" /\ issued' = issued)
          => (tcall'[c].pc = "failed" /\ tcall'[c].url = NoUrl)]_vars

\* An invocation whose mint call failed with NotFound.
C11_Witness ==
  \E c \in TokenCalls :
    /\ tcall[c].pc = "failed"
    /\ tcall[c].error = "NotFound"
    /\ tcall[c].url = NoUrl

\* The mint calls invocation c made so far, as positions of the mint log.
MintsBy(c) == {i \in 1..Len(issued) : issued[i].by = c}

VncUrlCarriesToken ==
  vncCall # NoVncCall =>
    /\ vncCall.base = BaseUrl(Http) => vncCall.url.base = <<"w", "s", "://host/api/v1">>
    /\ vncCall.base = BaseUrl(Https) => vncCall.url.base = <<"w", "s", "s", "://host/api/v1">>
    /\ vncCall.url.path = <<"sessions", vncCall.sessionId, "vnc">>
    /\ vncCall.url.token.scope = "vnc"

\* The resource class a URL addresses.
UrlClass(url) == IF url.path[1] = "files" THEN "file" ELSE "vnc"

\* The URLs a state holds.
BuiltUrls == ({tcall[c].url : c \in TokenCalls} \cup {vncCall.url}) \ {NoUrl}

\* C14: no URL embeds a token of another scope than the URL's resource
\* class: a file token only in file download URLs, a vnc token only in
\* remote-desktop URLs.
TokenScopeMatchesUrl ==
  \A url \in BuiltUrls :
    url.token # NoToken => url.token.scope = UrlClass(url)

\* A vnc token was minted first, then a file URL was built with its own file
\* token, and a remote-desktop URL exists.
C14_Witness ==
  /\ issued # <<>>
  /\ issued[1].token.scope = "vnc"
  /\ vncCall # NoVncCall
  /\ \E c \in TokenCalls :
       /\ tcall[c].pc = "done"
       /\ tcall[c].url.token.scope = "file"


----------------------------------------------------------------------------
\* Properties of the login page

\* The form fails client-side validation: validateUserInput reports an error
\* for a field handed to it, or in register mode the confirmation differs
\* from the password.
C15_FormFails ==
  \/ validateUserInput(FormInput(formData, isRegistering)) # {}
  \/ isRegistering /\ formData.password # formData.confirmPassword

\* C15: a handleSubmit on a form that fails client-side validation calls
\* neither login nor register.
NoCallOnInvalidForm ==
  [][(submitTick' # submitTick /\ C15_FormFails) => authLog' = authLog]_vars

\* A register form whose only fault is the confirmation was submitted, after
\* an earlier valid submit: the fault is recorded and no second call made.
C15_Witness ==
  /\ isRegistering
  /\ validateUserInput(FormInput(formData, isRegistering)) = {}
  /\ formData.password # formData.confirmPassword
  /\ validationErrors = {"confirmPassword"}
  /\ submitTick = FALSE
  /\ Len(authLog) = 1


----------------------------------------------------------------------------
\* Properties of the session, file and share clients

ApiSettled(c) == acall[c].pc \in {"returned", "thrown"}

\* C16: every operation of the session and file clients hands a failed
\* backend request to its caller as a failure, deleteFile and getFileInfo
\* included.
FailurePropagates ==
  \A c \in ApiCallers :
    ApiSettled(c) /\ Failed(acall[c].response) => acall[c].pc = "thrown"

\* A stopSession in flight for a session the backend has deleted.
C17_StopOnDeleted(c) ==
  /\ acall[c].op = "stopSession"
  /\ acall[c].pc = "sent"
  /\ sessions[acall[c].args.id] = "deleted"

\* C17: an invocation of a mutating session operation sends exactly one
\* request, whatever the answer; a stopSession answered for a deleted session
\* fails and is not sent again.
OneRequestPerMutation ==
  [][\A c \in ApiCallers :
       /\ acall'[c].op \in MutatingOps => Len(acall'[c].requests) = 1
       /\ C17_StopOnDeleted(c) /\ acall'[c] # acall[c] =>
            acall'[c].pc = "thrown" /\ Len(acall'[c].requests) = 1]_vars

\* A deleteSession has returned and a stopSession of the deleted session was
\* refused by the backend: one request each.
C17_Witness ==
  /\ sessions["s1"] = "deleted"
  /\ acall["a1"].op = "deleteSession"
  /\ acall["a1"].pc = "returned"
  /\ Len(acall["a1"].requests) = 1
  /\ acall["a2"].op = "stopSession"
  /\ acall["a2"].pc = "thrown"
  /\ acall["a2"].response.status = "error"
  /\ Len(acall["a2"].requests) = 1

\* C18: for the operations that return a payload, an envelope with success
\* true yields its data field as the result, and an envelope with success
\* false yields a failure, never a result.
EnvelopeUnwrapped ==
  \A c \in ApiCallers :
    acall[c].op \in PayloadOps /\ ApiSettled(c) /\ acall[c].response.status = "2xx" =>
      IF acall[c].response.body.success
        THEN /\ acall[c].pc = "returned"
             /\ acall[c].result = [kind |-> "value", data |-> acall[c].response.body.data]
        ELSE acall[c].pc = "thrown"

\* shareSession returned the pair of its envelope, and a getSession answered
\* with success false has thrown.
C18_Witness ==
  /\ acall["a1"].op = "shareSession"
  /\ acall["a1"].pc = "returned"
  /\ acall["a1"].result.data.shareToken = 1
  /\ acall["a2"].op = "getSession"
  /\ acall["a2"].response.status = "2xx"
  /\ ~acall["a2"].response.body.success
  /\ acall["a2"].pc = "thrown"

\* C19: getSharedSession(shareId, token) succeeds only while a session is
\* shared and (shareId, token) is the pair the most recent shareSession
\* returned; the token travels in the X-Share-Token header of
\* GET /sessions/shared/{shareId}.
SharedLookupNeedsCurrentPair ==
  [][\A c \in ApiCallers :
       acall'[c].op = "getSharedSession" =>
         /\ Last(acall'[c].requests) =
              Req("GET", "/sessions/shared/{shareId}", "", acall'[c].args.shareId,
                  acall'[c].args.shareToken)
         /\ acall[c].pc = "sent" /\ acall'[c].pc = "returned" =>
              /\ \E id \in ApiSessionIds : share[id] # 0
              /\ acall[c].args.shareId = shareSerial
              /\ acall[c].args.shareToken = shareSerial]_vars

\* After a second shareSession the lookup with the new pair has succeeded and
\* the lookup with the superseded pair has failed.
C19_Witness ==
  /\ shareSerial = 2
  /\ share["s1"] = 2
  /\ acall["a1"].op = "getSharedSession"
  /\ acall["a1"].args = [id |-> "", shareId |-> 1, shareToken |-> 1]
  /\ acall["a1"].pc = "thrown"
  /\ acall["a1"].response.status # "network"
  /\ acall["a2"].op = "getSharedSession"
  /\ acall["a2"].args = [id |-> "", shareId |-> 2, shareToken |-> 2]
  /\ acall["a2"].pc = "returned"


----------------------------------------------------------------------------
\* Properties of the chat box

\* C20: every submit event carries at most one attachment, is emitted only
\* when the text is not blank, and empties the attachment slot; no uploaded
\* attachment is sent with two messages.
OneAttachmentOneMessage ==
  [][/\ \A i, j \in 1..Len(sentAttachments') :
          i # j => sentAttachments'[i] # sentAttachments'[j]
     /\ chatTick' # chatTick =>
          /\ Len(lastSubmit'.attachments) <= 1
          /\ Trim(modelValue) # <<>>
          /\ lastSubmit'.message = modelValue
          /\ attachment' = NoAttachment]_vars

\* Two uploads were each sent, the second with the last message, and the
\* slot is empty again.
C20_Witness ==
  /\ sentAttachments = <<1, 2>>
  /\ lastSubmit.attachments = <<2>>
  /\ Trim(lastSubmit.message) # <<>>
  /\ attachment = NoAttachment

----------------------------------------------------------------------------
\* Further property of the Permission Evaluator

\* C21: canManageUsers is false for a null user and for an inactive user,
\* an inactive admin included.
ManageUsersDeniedWhenInactive ==
  (Checked("canManageUsers") /\ ~ActiveUser) => check.result = FALSE

----------------------------------------------------------------------------
\* Property of the router guard

\* C22: a navigation during which the stored token does not change is settled
\* after at most one redirect; a route marked requiresAuth is entered only
\* with a token stored, and /login only with none.
GuardSettlesNavigation ==
  [][(nav.pc = "guard" /\ nav'.pc = "idle" /\ ~nav.tokenChanged) =>
       /\ nav'.redirects <= 1
       /\ RequiresAuth(currentRoute') => HasToken(storedToken)
       /\ currentRoute' = "/login" => ~HasToken(storedToken)]_vars

\* With a token stored, a navigation to /login has ended on / after one
\* redirect.
C22_Witness ==
  /\ nav.pc = "idle"
  /\ nav.requested = "/login"
  /\ ~nav.tokenChanged
  /\ nav.redirects = 1
  /\ currentRoute = "/"
  /\ HasToken(storedToken)

----------------------------------------------------------------------------
\* Further property of the login page

\* C23: register is called only with the password equal to the confirmation
\* at the moment of the call, login only in login mode, and a mode toggle
\* empties the four fields and the validation errors.
CallsMatchModeAndToggleResets ==
  [][/\ authLog' # authLog =>
          /\ Last(authLog').fn = "register" =>
               /\ isRegistering
               /\ formData.password = formData.confirmPassword
               /\ Last(authLog').password = formData.password
          /\ Last(authLog').fn = "login" => ~isRegistering
     /\ isRegistering' # isRegistering =>
          /\ formData' = EmptyForm
          /\ validationErrors' = {}]_vars

\* A register call was made with matching passwords, then the mode was
\* toggled back: login mode with an empty form and no errors.
C23_Witness ==
  /\ Len(authLog) = 1
  /\ authLog[1].fn = "register"
  /\ authLog[1].password = Rep(6)
  /\ ~isRegistering
  /\ formData = EmptyForm
  /\ validationErrors = {}


====
